---- MODULE Spec2Model ----
(***************************************************************************)
(* A model of the hierarchy merge utility (src/main.go).                   *)
(*                                                                         *)
(* Text (hierarchy file content, paths, environment values, the output     *)
(* document) is a sequence of one-character strings.  The file system is a *)
(* function from cleaned paths to nodes.  A run of main is a sequence of   *)
(* steps: parseFlags, the stale-output removal, processHierarchy (one step *)
(* per line read), mergeFilesInHierarchy (one step per directory listing   *)
(* and per file merged) and the final write.                               *)
(***************************************************************************)
EXTENDS Integers, Sequences, FiniteSets, TLC

\* Bounds of the model.
MaxLines == 2
MaxFrags == 2
MaxPieces == 3

VARIABLES cfg, parseErr, env, fs, pc, exitCode, why, hierarchy, unread,
          dirIdx, files, data, counter, prev, last, log, call, runs

vars == <<cfg, parseErr, env, fs, pc, exitCode, why, hierarchy, unread,
          dirIdx, files, data, counter, prev, last, log, call, runs>>

----------------------------------------------------------------------------
\* Characters and text.

Lower == <<"a","b","c","d","e","f","g","h","i","j","k","l","m",
           "n","o","p","q","r","s","t","u","v","w","x","y","z">>
Upper == <<"A","B","C","D","E","F","G","H","I","J","K","L","M",
           "N","O","P","Q","R","S","T","U","V","W","X","Y","Z">>
Digits == <<"0","1","2","3","4","5","6","7","8","9">>

\* The characters of the model in byte order.
Ascii == <<"\n", " ", "\"", "#", "$", "-", ".", "/">> \o Digits \o <<":">>
           \o Upper \o <<"[", "]", "_">> \o Lower \o <<"{", "}">>

Range(s) == {s[i] : i \in 1..Len(s)}

Code(c) == CHOOSE i \in 1..Len(Ascii) : Ascii[i] = c

IsLetter(c) == c \in Range(Lower) \cup Range(Upper)

\* strings.ToUpper
ToUpperChar(c) ==
    IF c \in Range(Lower) THEN Upper[CHOOSE i \in 1..26 : Lower[i] = c] ELSE c

\* Mutant: the name is looked up as it is written.
ToUpperSame(s) == s

ToUpper(s) == [i \in 1..Len(s) |-> ToUpperChar(s[i])]

\* unicode.IsSpace, on the characters of the model
IsSpace(c) == c \in {" ", "\n"}

HasPrefixAt(s, i, p) ==
    /\ i + Len(p) - 1 <= Len(s)
    /\ \A j \in 1..Len(p) : s[i + j - 1] = p[j]

\* The index of the first occurrence of character c in s, or 0.
IndexOf(s, c) ==
    IF \E i \in 1..Len(s) : s[i] = c
    THEN CHOOSE i \in 1..Len(s) : s[i] = c /\ \A j \in 1..(i - 1) : s[j] # c
    ELSE 0

\* strings.Split(line, "#")[0]
\* Mutant: only a line that starts with # counts as a comment.
BeforeCommentAtStart(line) ==
    IF line # <<>> /\ line[1] = "#" THEN <<>> ELSE line

BeforeComment(line) ==
    IF IndexOf(line, "#") = 0 THEN line ELSE SubSeq(line, 1, IndexOf(line, "#") - 1)

\* strings.TrimSpace
TrimSpace(s) ==
    IF \A i \in 1..Len(s) : IsSpace(s[i]) THEN <<>>
    ELSE LET a == CHOOSE i \in 1..Len(s) :
                     ~IsSpace(s[i]) /\ \A j \in 1..(i - 1) : IsSpace(s[j])
             b == CHOOSE i \in 1..Len(s) :
                     ~IsSpace(s[i]) /\ \A j \in (i + 1)..Len(s) : IsSpace(s[j])
         IN SubSeq(s, a, b)

\* strings.ReplaceAll(s, old, new), old not empty: the non-overlapping
\* occurrences of old, left to right.
RECURSIVE ReplaceFrom(_, _, _, _)
ReplaceFrom(s, i, old, new) ==
    IF i > Len(s) THEN <<>>
    ELSE IF HasPrefixAt(s, i, old)
         THEN new \o ReplaceFrom(s, i + Len(old), old, new)
         ELSE <<s[i]>> \o ReplaceFrom(s, i + 1, old, new)

ReplaceAll(s, old, new) == ReplaceFrom(s, 1, old, new)

\* The characters [][A-Za-z_0-9.] of the placeholder pattern.
IsNameChar(c) == IsLetter(c) \/ c \in Range(Digits) \cup {"[", "]", "_", "."}

\* The end of the match of \$\{[A-Za-z][][A-Za-z_0-9.]*\} that starts at i,
\* or 0 when the pattern does not match there.
MatchEnd(s, i) ==
    IF /\ i + 3 <= Len(s)
       /\ s[i] = "$" /\ s[i + 1] = "{"
       /\ IsLetter(s[i + 2])
    THEN LET stops == {j \in (i + 3)..Len(s) : ~IsNameChar(s[j])}
         IN IF stops = {} THEN 0
            ELSE LET j == CHOOSE k \in stops : \A m \in stops : k <= m
                 IN IF s[j] = "}" THEN j ELSE 0
    ELSE 0

\* re.FindAllString(str, -1): the leftmost non-overlapping matches, in order.
RECURSIVE FindFrom(_, _)
FindFrom(s, i) ==
    IF i > Len(s) THEN <<>>
    ELSE IF MatchEnd(s, i) > 0
         THEN <<SubSeq(s, i, MatchEnd(s, i))>> \o FindFrom(s, MatchEnd(s, i) + 1)
         ELSE FindFrom(s, i + 1)

FindAllString(s) == FindFrom(s, 1)

\* os.Getenv: the value, or the empty string for a variable that is not set.
\* env maps a variable name to [set, val].
Getenv(name) == IF name \in DOMAIN env /\ env[name].set THEN env[name].val ELSE <<>>

\* The name between "${" and "}".
VarNameOf(token) == SubSeq(token, 3, Len(token) - 1)

\* The loop of replaceEnvironmentVariables over the matches found in the
\* original text: log.Fatal on the first undefined variable when failMissing.
\* Mutant: an undefined variable is replaced by the empty string.
RECURSIVE ReplaceLoopBlank(_, _, _, _)
ReplaceLoopBlank(str, matches, k, failMissing) ==
    IF k > Len(matches) THEN [fatal |-> FALSE, str |-> str]
    ELSE LET varName == matches[k]
             envVar == Getenv(ToUpper(VarNameOf(varName)))
         IN IF Len(envVar) = 0 /\ failMissing
            THEN [fatal |-> TRUE, str |-> str]
            ELSE ReplaceLoopBlank(ReplaceAll(str, varName, envVar), matches, k + 1,
                                  failMissing)

RECURSIVE ReplaceLoop(_, _, _, _)
ReplaceLoop(str, matches, k, failMissing) ==
    IF k > Len(matches) THEN [fatal |-> FALSE, str |-> str]
    ELSE LET varName == matches[k]
             envVar == Getenv(ToUpper(VarNameOf(varName)))
         IN IF Len(envVar) = 0
            THEN IF failMissing
                 THEN [fatal |-> TRUE, str |-> str]
                 ELSE ReplaceLoop(str, matches, k + 1, failMissing)
            ELSE ReplaceLoop(ReplaceAll(str, varName, envVar), matches, k + 1,
                             failMissing)

replaceEnvironmentVariables(str, failMissing) ==
    ReplaceLoop(str, FindAllString(str), 1, failMissing)

----------------------------------------------------------------------------
\* Paths (package path) and the file system.

\* The segments of s between occurrences of character c.
RECURSIVE SplitBy(_, _)
SplitBy(s, c) ==
    IF IndexOf(s, c) = 0 THEN <<s>>
    ELSE <<SubSeq(s, 1, IndexOf(s, c) - 1)>>
             \o SplitBy(SubSeq(s, IndexOf(s, c) + 1, Len(s)), c)

RECURSIVE JoinWith(_, _)
JoinWith(parts, c) ==
    IF parts = <<>> THEN <<>>
    ELSE IF Len(parts) = 1 THEN parts[1]
         ELSE parts[1] \o <<c>> \o JoinWith(Tail(parts), c)

DotDot == <<".", ".">>

\* The elements of a path that Clean keeps, given the ones kept so far.
RECURSIVE CleanParts(_, _, _, _)
CleanParts(parts, k, out, rooted) ==
    IF k > Len(parts) THEN out
    ELSE LET e == parts[k]
         IN IF e = <<>> \/ e = <<".">>
            THEN CleanParts(parts, k + 1, out, rooted)
            ELSE IF e = DotDot
                 THEN IF out # <<>> /\ out[Len(out)] # DotDot
                      THEN CleanParts(parts, k + 1, SubSeq(out, 1, Len(out) - 1), rooted)
                      ELSE IF rooted
                           THEN CleanParts(parts, k + 1, out, rooted)
                           ELSE CleanParts(parts, k + 1, Append(out, e), rooted)
                 ELSE CleanParts(parts, k + 1, Append(out, e), rooted)

\* path.Clean
Clean(p) ==
    LET rooted == Len(p) > 0 /\ p[1] = "/"
        out == CleanParts(SplitBy(p, "/"), 1, <<>>, rooted)
    IN IF rooted THEN <<"/">> \o JoinWith(out, "/")
       ELSE IF out = <<>> THEN <<".">> ELSE JoinWith(out, "/")

\* path.Join of two elements: empty elements are ignored.
Join(a, b) ==
    IF a = <<>> /\ b = <<>> THEN <<>>
    ELSE IF a = <<>> THEN Clean(b)
         ELSE IF b = <<>> THEN Clean(a)
              ELSE Clean(a \o <<"/">> \o b)

LastSlash(p) ==
    IF \E i \in 1..Len(p) : p[i] = "/"
    THEN CHOOSE i \in 1..Len(p) : p[i] = "/" /\ \A j \in (i + 1)..Len(p) : p[j] # "/"
    ELSE 0

\* The directory that holds the cleaned path p, and p's name in it.
Parent(p) ==
    LET s == LastSlash(p)
    IN IF s = 0 THEN <<".">>
       ELSE IF s = 1 THEN <<"/">> ELSE SubSeq(p, 1, s - 1)

BaseName(p) == SubSeq(p, LastSlash(p) + 1, Len(p))

\* os.Stat: the node at a path, NoNode when there is none (an error).
NoNode == [kind |-> "none"]
Stat(f, p) == IF p # <<>> /\ Clean(p) \in DOMAIN f THEN f[Clean(p)] ELSE NoNode

Exists(f, p) == Stat(f, p).kind # "none"
IsDir(f, p) == Stat(f, p).kind = "dir"

\* Byte-wise order of names.
RECURSIVE NameLess(_, _)
NameLess(a, b) ==
    IF a = <<>> THEN b # <<>>
    ELSE IF b = <<>> THEN FALSE
         ELSE IF a[1] = b[1] THEN NameLess(Tail(a), Tail(b))
              ELSE Code(a[1]) < Code(b[1])

RECURSIVE SortNames(_)
SortNames(S) ==
    IF S = {} THEN <<>>
    ELSE LET m == CHOOSE x \in S : \A y \in S \ {x} : NameLess(x, y)
         IN <<m>> \o SortNames(S \ {m})

\* ioutil.ReadDir: the names in a directory, sorted by name.
ReadDir(f, dir) ==
    LET d == Clean(dir)
    IN SortNames({BaseName(p) : p \in {q \in DOMAIN f :
                     q # <<".">> /\ q # <<"/">> /\ Parent(q) = d}})

HasSuffix(s, suf) ==
    Len(s) >= Len(suf) /\ SubSeq(s, Len(s) - Len(suf) + 1, Len(s)) = suf

\* Default file filter
defaultFileFilter ==
    <<"(", ".", "y", "a", "m", "l", "|", ".", "y", "m", "l", "|",
      ".", "j", "s", "o", "n", ")", "$">>

\* Mutant: the extension may be anywhere in the name.
MatchAnywhere(name) ==
    \E ext \in {<<"y", "a", "m", "l">>, <<"y", "m", "l">>, <<"j", "s", "o", "n">>} :
        \E i \in 2..Len(name) : HasPrefixAt(name, i, ext)

\* regexp.MatchString(defaultFileFilter, name): the name ends in any
\* character followed by yaml, yml or json.
MatchDefault(name) ==
    \E ext \in {<<"y", "a", "m", "l">>, <<"y", "m", "l">>, <<"j", "s", "o", "n">>} :
        /\ Len(name) > Len(ext)
        /\ HasSuffix(name, ext)
        /\ name[Len(name) - Len(ext)] # "\n"

\* A filter that is not a regular expression.
BadFilter == <<"(">>

\* regexp.MatchString: [err, r]. The model knows the default filter; any other
\* pattern text is one that does not compile.
MatchString(pattern, name) ==
    IF pattern = defaultFileFilter
    THEN [err |-> FALSE, r |-> MatchDefault(name)]
    ELSE [err |-> TRUE, r |-> FALSE]

\* getFiles, for a directory that can be listed.
RECURSIVE FilterFiles(_, _, _, _)
FilterFiles(f, includePath, names, fileFilter) ==
    IF names = <<>> THEN <<>>
    ELSE LET filePath == Join(includePath, Head(names))
             m == MatchString(fileFilter, Head(names))
             rest == FilterFiles(f, includePath, Tail(names), fileFilter)
         IN IF ~IsDir(f, filePath) /\ ~m.err /\ m.r
            THEN <<filePath>> \o rest
            ELSE rest

getFiles(f, includePath, fileFilter) ==
    FilterFiles(f, includePath, ReadDir(f, includePath), fileFilter)

----------------------------------------------------------------------------
\* Documents: the values yaml.Unmarshal produces, mergo.Merge and yaml.Marshal.

VNull == [t |-> "null"]
VInt(n) == [t |-> "int", v |-> n]
VStr(s) == [t |-> "str", v |-> s]
VBool(b) == [t |-> "bool", v |-> b]
VList(items) == [t |-> "list", v |-> items]
VMap(m) == [t |-> "map", v |-> m]

EmptyMap == [k \in {} |-> VNull]

\* mergo's isEmptyValue on the value held by a map element.
isEmptyValue(x) ==
    CASE x.t = "null" -> TRUE
      [] x.t = "int" -> x.v = 0
      [] x.t = "str" -> x.v = <<>>
      [] x.t = "bool" -> x.v = FALSE
      [] x.t = "list" -> x.v = <<>>
      [] x.t = "map" -> DOMAIN x.v = {}

\* mergo.Merge(&data, mergeData, mergo.WithOverride) on map[string]interface{}:
\* deepMerge's loop over the keys of src.  A nil element is set (overwrite);
\* a map element is merged into a map of dst, and otherwise set only when the
\* element of dst is absent or empty; a slice or any other element is set.
\* Mutant: a map of src replaces the map of dst instead of being merged into it.
MergeElemShallow(dstElement, srcElement) ==
    IF srcElement.t = "map" /\ dstElement.t = "map"
    THEN VMap([k \in DOMAIN dstElement.v \cup DOMAIN srcElement.v |->
                IF k \in DOMAIN srcElement.v THEN srcElement.v[k] ELSE dstElement.v[k]])
    ELSE srcElement

\* Mutant: a slice of src is appended to the slice of dst (mergo's AppendSlice).
MergeElemAppend(dstElement, srcElement) ==
    IF srcElement.t = "list" /\ dstElement.t = "list"
    THEN VList(dstElement.v \o srcElement.v)
    ELSE srcElement

RECURSIVE MergeElem(_, _)
MergeElem(dstElement, srcElement) ==
    CASE srcElement.t = "null" -> srcElement
      [] srcElement.t = "map" ->
            IF dstElement.t = "map"
            THEN VMap([k \in DOMAIN dstElement.v \cup DOMAIN srcElement.v |->
                        IF k \notin DOMAIN srcElement.v THEN dstElement.v[k]
                        ELSE IF k \notin DOMAIN dstElement.v THEN srcElement.v[k]
                             ELSE MergeElem(dstElement.v[k], srcElement.v[k])])
            ELSE IF isEmptyValue(dstElement) THEN srcElement ELSE dstElement
      [] srcElement.t = "list" -> srcElement
      [] OTHER -> srcElement

\* Mutant: the merge without WithOverride, where the value already there wins.
MergeKeep(dst, src) == MergeElem(VMap(src), VMap(dst)).v

Merge(dst, src) == MergeElem(VMap(dst), VMap(src)).v

Spaces(n) == [i \in 1..n |-> " "]

\* The text of a scalar as yaml.v3 writes it.
ScalarText(x) ==
    CASE x.t = "null" -> <<"n", "u", "l", "l">>
      [] x.t = "int" -> <<Digits[x.v + 1]>>
      [] x.t = "bool" -> IF x.v THEN <<"t", "r", "u", "e">>
                                ELSE <<"f", "a", "l", "s", "e">>
      [] x.t = "str" -> IF x.v = <<>> THEN <<"\"", "\"">> ELSE x.v

RECURSIVE MarshalItems(_, _)
MarshalItems(items, ind) ==
    IF items = <<>> THEN <<>>
    ELSE Spaces(ind) \o <<"-", " ">> \o ScalarText(Head(items)) \o <<"\n">>
             \o MarshalItems(Tail(items), ind)

\* A block mapping: keys sorted, nested collections indented by four.
RECURSIVE MarshalEntries(_, _, _)
MarshalEntries(m, keys, ind) ==
    IF keys = <<>> THEN <<>>
    ELSE LET k == Head(keys)[1]
             x == m[k]
             text ==
                 CASE x.t = "map" ->
                        IF DOMAIN x.v = {} THEN <<" ", "{", "}", "\n">>
                        ELSE <<"\n">> \o MarshalEntries(x.v,
                                 SortNames({<<j>> : j \in DOMAIN x.v}), ind + 4)
                   [] x.t = "list" ->
                        IF x.v = <<>> THEN <<" ", "[", "]", "\n">>
                        ELSE <<"\n">> \o MarshalItems(x.v, ind + 4)
                   [] OTHER -> <<" ">> \o ScalarText(x) \o <<"\n">>
         IN Spaces(ind) \o <<k, ":">> \o text \o MarshalEntries(m, Tail(keys), ind)

\* Mutant: a document without keys marshals to no text at all.
MarshalBlank(m) ==
    IF DOMAIN m = {} THEN <<>>
    ELSE MarshalEntries(m, SortNames({<<j>> : j \in DOMAIN m}), 0)

\* yaml.Marshal(&data)
Marshal(m) ==
    IF DOMAIN m = {} THEN <<"{", "}", "\n">>
    ELSE MarshalEntries(m, SortNames({<<j>> : j \in DOMAIN m}), 0)

----------------------------------------------------------------------------
\* The steps of main.

\* log.Fatal: the process ends with status 1.
Fatal(reason) == pc' = "fatal" /\ exitCode' = 1 /\ why' = reason

Event(e, a) == [ev |-> e, arg |-> a]

\* parseFlags: --version prints and exits 0 whatever else the arguments
\* hold; a parse error exits 2.
\* Mutant: the parse error is looked at before the version flag.
ParseErrorFirst ==
    IF parseErr THEN [exit |-> TRUE, code |-> 2, why |-> "usage"]
    ELSE IF cfg.printVersion THEN [exit |-> TRUE, code |-> 0, why |-> "version"]
         ELSE [exit |-> FALSE, code |-> -1, why |-> ""]

\* How parseFlags ends after application.Parse.
ParseOutcome ==
    IF cfg.printVersion THEN [exit |-> TRUE, code |-> 0, why |-> "version"]
    ELSE IF parseErr THEN [exit |-> TRUE, code |-> 2, why |-> "usage"]
         ELSE [exit |-> FALSE, code |-> -1, why |-> ""]

ParseFlags ==
    /\ pc = "start"
    /\ IF ParseOutcome.exit
       THEN pc' = "exit" /\ exitCode' = ParseOutcome.code /\ why' = ParseOutcome.why
       ELSE pc' = "main" /\ UNCHANGED <<exitCode, why>>
    /\ UNCHANGED <<cfg, parseErr, env, fs, hierarchy, unread, dirIdx, files,
                   data, counter, prev, last, log, call, runs>>

\* os.Remove(name): the entry is removed when its directory can be written.
CanRemove(f, p) == Stat(f, Parent(Clean(p))).kind = "dir" /\ Stat(f, Parent(Clean(p))).writable

Without(f, p) == [q \in DOMAIN f \ {Clean(p)} |-> f[q]]

\* Mutant: the old output file is left where it is.
KeepFile(f, p) == f

\* The file system after os.Remove(p).
Removed(f, p) == Without(f, p)

\* main: an output file that already exists is removed first.
RemoveOutput ==
    /\ pc = "main"
    /\ IF Exists(fs, cfg.outputFile)
       THEN IF CanRemove(fs, cfg.outputFile)
            THEN /\ fs' = Removed(fs, cfg.outputFile)
                 /\ log' = Append(log, Event("remove", cfg.outputFile))
                 /\ pc' = "processHierarchy"
                 /\ UNCHANGED <<exitCode, why>>
            ELSE /\ Fatal("remove")
                 /\ UNCHANGED <<fs, log>>
       ELSE /\ pc' = "processHierarchy"
            /\ UNCHANGED <<fs, log, exitCode, why>>
    /\ UNCHANGED <<cfg, parseErr, env, hierarchy, unread, dirIdx, files,
                   data, counter, prev, last, call, runs>>

hierarchyFilePath == Join(cfg.basePath, cfg.hierarchyFile)

\* Mutant: the fallback is the working directory, not the base path.
FallbackCwd(h) == Append(h, <<".", "/">>)

\* The hierarchy when there is no hierarchy file: the base path alone.
Fallback(h) == Append(h, cfg.basePath)

\* Mutant: a missing hierarchy file always means the base path.
FallsBackAlways == ~Exists(fs, hierarchyFilePath)

\* os.Stat of the hierarchy file fails and failMissingHierarchy is false.
FallsBack == ~Exists(fs, hierarchyFilePath) /\ ~cfg.failMissingHierarchy

\* processHierarchy up to the reader: without a hierarchy file the base
\* path is the whole hierarchy, unless failMissingHierarchy; os.Open of a
\* missing file is fatal, and so is the first read of a directory.
OpenHierarchy ==
    /\ pc = "processHierarchy"
    /\ IF FallsBack
       THEN /\ hierarchy' = Fallback(hierarchy)
            /\ pc' = "merge"
            /\ log' = Append(log, Event("fallback", cfg.basePath))
            /\ UNCHANGED <<unread, exitCode, why>>
       ELSE IF ~Exists(fs, hierarchyFilePath)
            THEN Fatal("open") /\ UNCHANGED <<hierarchy, unread, log>>
            ELSE IF IsDir(fs, hierarchyFilePath)
                 THEN Fatal("read") /\ UNCHANGED <<hierarchy, unread, log>>
                 ELSE /\ unread' = Stat(fs, hierarchyFilePath).text
                      /\ pc' = "readLine"
                      /\ log' = Append(log, Event("open", hierarchyFilePath))
                      /\ UNCHANGED <<hierarchy, exitCode, why>>
    /\ UNCHANGED <<cfg, parseErr, env, fs, dirIdx, files, data, counter, prev, last, call, runs>>

\* reader.ReadString('\n'): the text up to and including the first newline,
\* or all that is left together with io.EOF.
\* Mutant: at io.EOF the text read so far is dropped.
ReadStringDropsTail(text) ==
    IF IndexOf(text, "\n") = 0
    THEN [line |-> <<>>, eof |-> TRUE, rest |-> <<>>]
    ELSE [line |-> SubSeq(text, 1, IndexOf(text, "\n")), eof |-> FALSE,
          rest |-> SubSeq(text, IndexOf(text, "\n") + 1, Len(text))]

ReadString(text) ==
    IF IndexOf(text, "\n") = 0
    THEN [line |-> text, eof |-> TRUE, rest |-> <<>>]
    ELSE [line |-> SubSeq(text, 1, IndexOf(text, "\n")), eof |-> FALSE,
          rest |-> SubSeq(text, IndexOf(text, "\n") + 1, Len(text))]

\* The variable substitution of a hierarchy line: always fail-fast.
\* Mutant: the hierarchy lines follow the failMissingEnvVar flag.
SubstituteLineByFlag(includePath) ==
    replaceEnvironmentVariables(includePath, cfg.failMissingEnvVar)

SubstituteLine(includePath) == replaceEnvironmentVariables(includePath, TRUE)

\* What processHierarchy does with a directory that is not there.
\* Mutant: a missing directory is only ever a warning.
MissingPathNeverFatal == FALSE

MissingPathIsFatal == cfg.failMissingPath

\* processHierarchy: one turn of the loop over the lines.
ReadLine ==
    /\ pc = "readLine"
    /\ LET rd == ReadString(unread)
           sub == SubstituteLine(TrimSpace(BeforeComment(rd.line)))
           includePath == Join(cfg.basePath, sub.str)
           seen == Append(log, Event("line", rd.line))
       IN /\ unread' = rd.rest
          /\ log' = seen
          /\ IF sub.fatal
             THEN Fatal("hierarchy variable") /\ UNCHANGED hierarchy
             ELSE IF Len(sub.str) > 0 /\ ~IsDir(fs, includePath) /\ MissingPathIsFatal
                  THEN Fatal("hierarchy directory") /\ UNCHANGED hierarchy
                  ELSE /\ hierarchy' = IF Len(sub.str) > 0 /\ IsDir(fs, includePath)
                                       THEN Append(hierarchy, includePath)
                                       ELSE hierarchy
                       /\ pc' = IF rd.eof THEN "merge" ELSE "readLine"
                       /\ UNCHANGED <<exitCode, why>>
    /\ UNCHANGED <<cfg, parseErr, env, fs, dirIdx, files, data, counter, prev, last, call, runs>>

\* Mutant: a directory that cannot be listed is passed over unless
\* failMissingPath.
ReadDirFailsByFlag(f, dir) == ~IsDir(f, dir) /\ cfg.failMissingPath

\* ioutil.ReadDir returns an error for anything that is not a directory.
ReadDirFails(f, dir) == ~IsDir(f, dir)

\* mergeFilesInHierarchy: getFiles for the next directory of the hierarchy;
\* an error of ioutil.ReadDir is fatal.
ListDir ==
    /\ pc = "merge"
    /\ dirIdx <= Len(hierarchy)
    /\ IF ~ReadDirFails(fs, hierarchy[dirIdx])
       THEN /\ files' = getFiles(fs, hierarchy[dirIdx], cfg.filterExtension)
            /\ pc' = "files"
            /\ log' = Append(log, Event("list", hierarchy[dirIdx]))
            /\ UNCHANGED <<exitCode, why>>
       ELSE Fatal("list") /\ UNCHANGED <<files, log>>
    /\ UNCHANGED <<cfg, parseErr, env, fs, hierarchy, unread, dirIdx, data,
                   counter, prev, last, call, runs>>

\* Mutant: a file that cannot be imported counts as an empty document.
ImportNeverFails(node) == FALSE

\* ioutil.ReadFile or yaml.Unmarshal into a map returns an error: the file
\* cannot be read, is not well-formed, or its top level is not a mapping.
ImportFails(node) == node.kind # "file" \/ ~node.yaml.ok

\* mergeFilesInHierarchy: read, parse and merge the next file of the directory.
MergeFile ==
    /\ pc = "files"
    /\ files # <<>>
    /\ LET node == Stat(fs, Head(files))
       IN IF ~ImportFails(node)
          THEN /\ data' = Merge(data, node.yaml.doc)
               /\ prev' = data
               /\ last' = node.yaml.doc
               /\ counter' = counter + 1
               /\ files' = Tail(files)
               /\ log' = Append(log, Event("import", Head(files)))
               /\ UNCHANGED <<pc, exitCode, why>>
          ELSE /\ Fatal("parse")
               /\ log' = Append(log, Event("import", Head(files)))
               /\ UNCHANGED <<data, prev, last, counter, files>>
    /\ UNCHANGED <<cfg, parseErr, env, fs, hierarchy, unread, dirIdx, call, runs>>

\* mergeFilesInHierarchy: the files of a directory are done.
EndDir ==
    /\ pc = "files"
    /\ files = <<>>
    /\ dirIdx' = dirIdx + 1
    /\ pc' = "merge"
    /\ UNCHANGED <<cfg, parseErr, env, fs, exitCode, why, hierarchy, unread,
                   files, data, counter, prev, last, log, call, runs>>

\* ioutil.WriteFile(name, text, 0660): an existing file is overwritten, a new
\* one needs a directory that can be written.
CanWrite(f, p) ==
    \/ Stat(f, p).kind = "file"
    \/ /\ Stat(f, p).kind = "none"
       /\ p # <<>>
       /\ Stat(f, Parent(Clean(p))).kind = "dir"
       /\ Stat(f, Parent(Clean(p))).writable

NoYaml == [ok |-> FALSE]
TextFile(text) == [kind |-> "file", text |-> text, yaml |-> NoYaml]

\* The text written: the marshalled document, with the variables replaced
\* unless skipEnvVarContent.
\* Mutant: an undefined variable in the content is never fatal.
OutputTextLenient(failMissing) ==
    IF cfg.skipEnvVarContent
    THEN [fatal |-> FALSE, str |-> Marshal(data)]
    ELSE replaceEnvironmentVariables(Marshal(data), FALSE)

\* Mutant: the variables are replaced whatever skipEnvVarContent says.
OutputTextAlways(failMissing) ==
    replaceEnvironmentVariables(Marshal(data), failMissing)

OutputText(failMissing) ==
    IF cfg.skipEnvVarContent
    THEN [fatal |-> FALSE, str |-> Marshal(data)]
    ELSE replaceEnvironmentVariables(Marshal(data), failMissing)

\* mergeFilesInHierarchy after the loops: marshal, substitute, write.
WriteOutput ==
    /\ pc = "merge"
    /\ dirIdx > Len(hierarchy)
    /\ LET out == OutputText(cfg.failMissingEnvVar)
       IN IF out.fatal
          THEN Fatal("content variable") /\ UNCHANGED <<fs, log>>
          ELSE IF CanWrite(fs, cfg.outputFile)
               THEN /\ fs' = [q \in DOMAIN fs \cup {Clean(cfg.outputFile)} |->
                                IF q = Clean(cfg.outputFile)
                                THEN TextFile(out.str) ELSE fs[q]]
                    /\ log' = Append(log, Event("write", cfg.outputFile))
                    /\ pc' = "done"
                    /\ exitCode' = 0
                    /\ why' = "success"
               ELSE Fatal("write") /\ UNCHANGED <<fs, log>>
    /\ UNCHANGED <<cfg, parseErr, env, hierarchy, unread, dirIdx, files, data,
                   counter, prev, last, call, runs>>

----------------------------------------------------------------------------
\* The worlds a run starts in: a configuration, an environment, a file system.

\* Paths of the model: base directory b with the hierarchy file h, a child
\* directory e and a regular file f; a sibling directory d; the output file.
PDot == <<".">>
PBase == <<"b">>
PHier == <<"h">>
PSibling == <<"d">>
PChild == <<"b", "/", "e">>
PPlain == <<"b", "/", "f">>
POut == <<"b", "/", "o", ".", "y", "m", "l">>
PNote == <<"d", "/", "n", ".", "t", "x", "t">>
PSubdir == <<"d", "/", "s", ".", "y", "m", "l">>

\* The fragment files, in the order in which worlds with more fragments add them.
FragPaths ==
    << <<"d", "/", "x", ".", "y", "m", "l">>,
       <<"b", "/", "y", ".", "y", "m", "l">>,
       <<"d", "/", "a", ".", "j", "s", "o", "n">>,
       <<"b", "/", "e", "/", "w", ".", "y", "a", "m", "l">> >>

Dir(w) == [kind |-> "dir", writable |-> w]
Fragment(doc) == [kind |-> "file", text |-> <<>>, yaml |-> [ok |-> TRUE, doc |-> doc]]

\* Text of a previous run's output, and the document it parses to.
StaleText == <<"z", ":", " ", "9", "\n">>
StaleFile == [kind |-> "file", text |-> StaleText,
              yaml |-> [ok |-> TRUE, doc |-> [z |-> VInt(9)]]]

\* Lines of a hierarchy file.
LSibling == <<".", ".", "/", "d">>
LBase == <<".", "/">>
LChild == <<" ", "e", " ", "#", "c">>
LMissing == <<"m">>
LPlain == <<"f">>
LComment == <<"#", "$", "{", "B", "}">>
LVariable == <<"$", "{", "a", "}">>
LBlank == <<>>

HierLines == {LSibling, LBase, LChild, LMissing, LPlain, LComment, LVariable, LBlank}
VarLines == {LVariable, LSibling, <<"e", "/", "$", "{", "B", "}">>}

\* The sequences of at most n elements of S.
RECURSIVE SeqsUpTo(_, _)
SeqsUpTo(S, n) ==
    IF n = 0 THEN {<<>>}
    ELSE LET shorter == SeqsUpTo(S, n - 1)
         IN shorter \cup {Append(q, x) : q \in {r \in shorter : Len(r) = n - 1}, x \in S}

\* A hierarchy file of the lines ls; the last line ends in a newline or not.
RECURSIVE FileText(_, _)
FileText(ls, newline) ==
    IF ls = <<>> THEN <<>>
    ELSE IF Len(ls) = 1 THEN (IF newline THEN ls[1] \o <<"\n">> ELSE ls[1])
         ELSE ls[1] \o <<"\n">> \o FileText(Tail(ls), newline)

HierTexts(S) ==
    {FileText(ls, nl) : ls \in SeqsUpTo(S, MaxLines), nl \in BOOLEAN}

\* Documents of fragment files.
One == VInt(1)
Two == VInt(2)
Docs ==
    { [k |-> One], [k |-> Two], [k |-> VInt(0)], [k |-> VNull],
      [k |-> VBool(FALSE)], [k |-> VStr(<<>>)],
      [k |-> VList(<<One, Two>>)], [k |-> VList(<<VInt(3)>>)], [k |-> VList(<<>>)],
      [k |-> VMap(EmptyMap)], [k |-> VMap([p |-> One])],
      [k |-> VMap([p |-> Two, q |-> One])],
      [k |-> VMap([q |-> VList(<<One>>)])],
      [k |-> VMap([p |-> VMap([r |-> One])])],
      [k |-> VMap([p |-> VMap([r |-> Two, s |-> One])])],
      [l |-> One], [k |-> One, l |-> Two], EmptyMap }

\* The documents of the fragments when they are not what a world varies.
VarA == <<"$", "{", "A", "}">>
VarMixed == <<"$", "{", "b", "}", "-", "$", "{", "A", "}">>
DefaultDocs ==
    << [k |-> One, l |-> VMap([p |-> One]), m |-> VStr(VarA)],
       [k |-> Two, l |-> VMap([q |-> Two]), n |-> VStr(VarMixed)],
       [k |-> VInt(3), i |-> VList(<<One>>)],
       [k |-> VInt(4)] >>

NameA == <<"A">>
NameB == <<"B">>
Undefined == [set |-> FALSE, val |-> <<>>]
Defined(text) == [set |-> TRUE, val |-> text]
DefaultEnv == (NameA :> Defined(<<"e">>)) @@ (NameB :> Undefined)

DefaultCfg ==
    [ hierarchyFile |-> PHier, basePath |-> PBase, outputFile |-> POut,
      filterExtension |-> defaultFileFilter, printVersion |-> FALSE,
      failMissingHierarchy |-> FALSE, failMissingPath |-> FALSE,
      failMissingEnvVar |-> FALSE, skipEnvVarContent |-> FALSE ]

Flags(c, fmh, fmp, fmv, skip) ==
    [c EXCEPT !.failMissingHierarchy = fmh, !.failMissingPath = fmp,
              !.failMissingEnvVar = fmv, !.skipEnvVarContent = skip]

\* The directories and files that are always there.
Tree ==
    (PDot :> Dir(TRUE)) @@ (PBase :> Dir(TRUE)) @@ (PSibling :> Dir(TRUE))
        @@ (PChild :> Dir(TRUE)) @@ (PSubdir :> Dir(TRUE))
        @@ (PPlain :> TextFile(<<"x">>)) @@ (PNote :> TextFile(<<"k", ":", " ", "7", "\n">>))

\* The first n fragment files, holding the documents docs.
Fragments(docs, n) == [q \in {FragPaths[i] : i \in 1..n} |->
                         Fragment(docs[CHOOSE i \in 1..n : FragPaths[i] = q])]

HierFile(text) == Join(PBase, PHier) :> TextFile(text)

BaseFs(text) == HierFile(text) @@ (POut :> StaleFile) @@ Fragments(DefaultDocs, 2) @@ Tree

World(c, e, f, perr) == [cfg |-> c, env |-> e, fs |-> f, parseErr |-> perr]

\* Hierarchy files of every shape, with and without failMissingPath and ${A}.
HierarchyWorlds ==
    { World(Flags(DefaultCfg, FALSE, fmp, FALSE, FALSE),
            (NameA :> a) @@ DefaultEnv, BaseFs(text), FALSE) :
        text \in HierTexts(HierLines), fmp \in BOOLEAN,
        a \in {Undefined, Defined(<<"e">>)} }

\* Hierarchy lines with variables under every combination of the flags.
VariableWorlds ==
    { World(Flags(DefaultCfg, fl[1], fl[2], fl[3], fl[4]),
            (NameA :> a) @@ DefaultEnv, BaseFs(text), FALSE) :
        text \in HierTexts(VarLines),
        fl \in BOOLEAN \X BOOLEAN \X BOOLEAN \X BOOLEAN,
        a \in {Undefined, Defined(<<>>), Defined(<<"e">>)} }

\* Fragments of every document, merged in the order d, then b; a fragment
\* beyond the second holds a scalar, a mapping, a list or nothing.
MoreDocs ==
    { [k |-> One], [k |-> VMap([p |-> Two, q |-> One])], [k |-> VList(<<VInt(3)>>)],
      EmptyMap }
TwoDirs == FileText(<<LSibling, LBase>>, TRUE)
DocumentWorlds ==
    { World(DefaultCfg, DefaultEnv,
            HierFile(TwoDirs) @@ Fragments(docs, MaxFrags) @@ Tree, FALSE) :
        docs \in {f \in [1..MaxFrags -> Docs] : \A i \in 3..MaxFrags : f[i] \in MoreDocs} }

\* Variables in the content of the fragments.
ContentWorlds ==
    { World(Flags(DefaultCfg, FALSE, FALSE, fmv, skip),
            (NameA :> a) @@ (NameB :> b), BaseFs(TwoDirs), FALSE) :
        fmv \in BOOLEAN, skip \in BOOLEAN,
        a \in {Undefined, Defined(<<>>), Defined(<<"e">>)},
        b \in {Undefined, Defined(<<"v">>)} }

\* Absolute entries: /d is a directory and b/d is not, b/e is a directory
\* and /e is not.
PRoot == <<"/">>
PAbsolute == <<"/", "d">>
LAbsolute == <<"/", "d">>
LAbsoluteChild == <<"/", "e">>
AbsoluteLines == {LAbsolute, LAbsoluteChild, LBase, <<"e">>}
AbsoluteWorlds ==
    { World(Flags(DefaultCfg, FALSE, fmp, FALSE, FALSE), DefaultEnv,
            (PRoot :> Dir(TRUE)) @@ (PAbsolute :> Dir(TRUE)) @@ BaseFs(text), FALSE) :
        text \in HierTexts(AbsoluteLines), fmp \in BOOLEAN }

\* Fragments that cannot be imported: a file that cannot be read, text that
\* is not YAML, a document whose top level is a list or a scalar.
Broken(reason) ==
    [kind |-> "file", text |-> <<>>,
     yaml |-> [ok |-> FALSE, doc |-> EmptyMap, err |-> reason]]
FragmentKinds == {"good", "unreadable", "malformed", "not a mapping"}
BrokenWorlds ==
    { World(DefaultCfg, DefaultEnv,
            [q \in {FragPaths[i] : i \in 1..3} |->
                LET i == CHOOSE j \in 1..3 : FragPaths[j] = q
                IN IF kinds[i] = "good" THEN Fragment(DefaultDocs[i])
                   ELSE Broken(kinds[i])] @@ BaseFs(TwoDirs),
            FALSE) :
        kinds \in [1..3 -> FragmentKinds] }

\* With and without a hierarchy file, a base directory, an old output file,
\* a directory that can be written; --version and bad arguments.
NoHier(f) == [q \in DOMAIN f \ {Join(PBase, PHier)} |-> f[q]]
ReadOnly(f, d) == [f EXCEPT ![d] = Dir(FALSE)]
SetupWorlds ==
    { World([Flags(DefaultCfg, fmh, fmp, FALSE, FALSE) EXCEPT
                !.basePath = base, !.printVersion = ver],
            DefaultEnv,
            LET f1 == IF hier = "file" THEN BaseFs(TwoDirs)
                      ELSE IF hier = "dir" THEN (Join(PBase, PHier) :> Dir(TRUE)) @@ BaseFs(TwoDirs)
                      ELSE NoHier(BaseFs(TwoDirs))
                f2 == IF stale THEN f1 ELSE Without(f1, POut)
            IN IF writable THEN f2 ELSE ReadOnly(f2, PBase),
            perr) :
        fmh \in BOOLEAN, fmp \in BOOLEAN, hier \in {"file", "dir", "none"},
        stale \in BOOLEAN, writable \in BOOLEAN,
        base \in {PBase, <<"b", "/">>, <<"m">>, PPlain},
        ver \in BOOLEAN, perr \in BOOLEAN }

\* A filter pattern that does not compile; the output directory can be
\* written or not.
FilterWorlds ==
    { World([Flags(DefaultCfg, FALSE, fmp, FALSE, skip) EXCEPT
                !.filterExtension = BadFilter],
            DefaultEnv,
            IF writable THEN BaseFs(text)
            ELSE ReadOnly(Without(BaseFs(text), POut), PBase),
            FALSE) :
        text \in {TwoDirs, FileText(<<LBase>>, FALSE)},
        fmp \in BOOLEAN, skip \in BOOLEAN, writable \in BOOLEAN }

\* Comments and blank lines: B is not set, b/e is a directory.
LSpaces == <<" ", " ">>
LEntryComment == <<"e", " ", "#", "$", "{", "B", "}">>
LSpaceComment == <<" ", "#", "m">>
CommentLines == {LComment, LSpaces, LEntryComment, LSpaceComment}
CommentWorlds ==
    { World(Flags(DefaultCfg, FALSE, fmp, fmv, FALSE), DefaultEnv, BaseFs(text), FALSE) :
        text \in HierTexts(CommentLines), fmp \in BOOLEAN, fmv \in BOOLEAN }

Worlds == HierarchyWorlds \cup VariableWorlds \cup DocumentWorlds
              \cup ContentWorlds \cup SetupWorlds \cup AbsoluteWorlds
              \cup BrokenWorlds \cup FilterWorlds \cup CommentWorlds

\* A run of main: no function is called on its own.
NoCall == [fn |-> "none"]

Init ==
    /\ \E w \in Worlds :
          /\ cfg = w.cfg
          /\ parseErr = w.parseErr
          /\ env = w.env
          /\ fs = w.fs
    /\ pc = "start"
    /\ exitCode = -1
    /\ why = ""
    /\ hierarchy = <<>>
    /\ unread = <<>>
    /\ dirIdx = 1
    /\ files = <<>>
    /\ data = EmptyMap
    /\ counter = 0
    /\ prev = EmptyMap
    /\ last = EmptyMap
    /\ log = <<>>
    /\ call = NoCall
    /\ runs = <<>>

\* main is started once more after a run that ended well, with the same
\* arguments and environment, on the file system the run has left; runs
\* keeps the text of the output file of each run so far.
Rerun ==
    /\ pc = "done"
    /\ runs = <<>>
    /\ runs' = Append(runs, Stat(fs, cfg.outputFile).text)
    /\ pc' = "start"
    /\ exitCode' = -1
    /\ why' = ""
    /\ hierarchy' = <<>>
    /\ unread' = <<>>
    /\ dirIdx' = 1
    /\ files' = <<>>
    /\ data' = EmptyMap
    /\ counter' = 0
    /\ prev' = EmptyMap
    /\ last' = EmptyMap
    /\ log' = <<>>
    /\ UNCHANGED <<cfg, parseErr, env, fs, call>>

Next ==
    \/ ParseFlags
    \/ RemoveOutput
    \/ OpenHierarchy
    \/ ReadLine
    \/ ListDir
    \/ MergeFile
    \/ EndDir
    \/ WriteOutput
    \/ Rerun

Spec == Init /\ [][Next]_vars

----------------------------------------------------------------------------
\* Properties.

\* The files imported so far, in order, and their documents.
Imports == SelectSeq(log, LAMBDA e : e.ev = "import")
ImportedPaths == [i \in 1..Len(Imports) |-> Imports[i].arg]
ImportedDocs == [i \in 1..Len(Imports) |-> Stat(fs, Imports[i].arg).yaml.doc]

\* The lines read so far.
LinesRead == SelectSeq(log, LAMBDA e : e.ev = "line")

\* The file system as the merge saw it: no file at the output path.
MergeFs == Without(fs, cfg.outputFile)

\* The files of the directories h[i], h[i+1], ..., each in getFiles order.
RECURSIVE FilesFrom(_, _)
FilesFrom(h, i) ==
    IF i > Len(h) THEN <<>>
    ELSE getFiles(MergeFs, h[i], cfg.filterExtension) \o FilesFrom(h, i + 1)

IsScalar(x) == x.t \in {"null", "int", "str", "bool"}

Largest(S) == CHOOSE i \in S : \A j \in S : j <= i

\* The values the documents docs hold at key k, in order.
ValuesAt(docs, k) ==
    LET idx == SelectSeq([i \in 1..Len(docs) |-> i], LAMBDA i : k \in DOMAIN docs[i])
    IN [n \in 1..Len(idx) |-> docs[idx[n]][k]]

\* In r, a key at which two of the documents hold a scalar, the later of them
\* being the last to define the key, has the later one's value; the same in
\* the mappings under a key at which the documents hold mappings.
RECURSIVE LastScalarWins(_, _)
LastScalarWins(docs, r) ==
    \A k \in UNION {DOMAIN docs[i] : i \in 1..Len(docs)} :
        LET vals == ValuesAt(docs, k)
            n == Len(vals)
        IN /\ (/\ IsScalar(vals[n])
               /\ \E i \in 1..(n - 1) : IsScalar(vals[i]))
                  => (k \in DOMAIN r /\ r[k] = vals[n])
           /\ (\A i \in 1..n : vals[i].t = "map")
                  => /\ k \in DOMAIN r
                     /\ r[k].t = "map"
                     /\ LastScalarWins([i \in 1..n |-> vals[i].v], r[k].v)

\* C1: fragments are merged in hierarchy order and, within a directory, in
\* getFiles order; at a key where two fragments hold a scalar the merged
\* document has the value of the one merged later.
C1_OverridePrecedence ==
    pc = "done" =>
        /\ ImportedPaths = FilesFrom(hierarchy, 1)
        /\ LastScalarWins(ImportedDocs, data)

\* C1 witness: the base directory is listed before the sibling, so the
\* sibling's k: 1 overrides the base directory's k: 2.
C1_Witness ==
    /\ pc = "done"
    /\ hierarchy = <<PBase, PSibling>>
    /\ ImportedPaths = <<FragPaths[2], FragPaths[1]>>
    /\ data["k"] = One

\* r is the recursive union of d and s: the keys of both, a key of one side
\* with that side's value, and the same between two mappings at a key of both.
RECURSIVE RecursiveUnion(_, _, _)
RecursiveUnion(d, s, r) ==
    /\ DOMAIN r = DOMAIN d \cup DOMAIN s
    /\ \A k \in DOMAIN r :
          /\ k \notin DOMAIN s => r[k] = d[k]
          /\ k \notin DOMAIN d => r[k] = s[k]
          /\ (k \in DOMAIN d /\ k \in DOMAIN s /\ d[k].t = "map" /\ s[k].t = "map")
                => r[k].t = "map" /\ RecursiveUnion(d[k].v, s[k].v, r[k].v)

\* C2: merging a fragment into the accumulator is a recursive union of
\* mappings; no key of either side is lost, a key of one side keeps its value.
C2_RecursiveUnion == counter > 0 => RecursiveUnion(prev, last, data)

\* C2 witness: {k: {p: 1}} merged with {k: {q: [1]}} holds both p and q.
C2_Witness ==
    /\ counter = 2
    /\ prev = [k |-> VMap([p |-> One])]
    /\ last = [k |-> VMap([q |-> VList(<<One>>)])]
    /\ data = [k |-> VMap([p |-> One, q |-> VList(<<One>>)])]

\* A list of s is the value in r, also in the mappings merged under a key.
RECURSIVE ListsReplaced(_, _, _)
ListsReplaced(d, s, r) ==
    \A k \in DOMAIN s :
        /\ s[k].t = "list" => (k \in DOMAIN r /\ r[k] = s[k])
        /\ (k \in DOMAIN d /\ d[k].t = "map" /\ s[k].t = "map")
              => (k \in DOMAIN r /\ r[k].t = "map" /\ ListsReplaced(d[k].v, s[k].v, r[k].v))

\* A key whose last definition among the documents is a list has that list.
LastListWins(docs, r) ==
    \A k \in UNION {DOMAIN docs[i] : i \in 1..Len(docs)} :
        LET vals == ValuesAt(docs, k)
        IN vals[Len(vals)].t = "list" => (k \in DOMAIN r /\ r[k] = vals[Len(vals)])

\* C3: a list of the incoming fragment replaces the value at its key whole,
\* never merged or appended; the final value of a key is the list of the last
\* fragment that defines it as one.
C3_ListsReplaced ==
    /\ counter > 0 => ListsReplaced(prev, last, data)
    /\ pc = "done" => LastListWins(ImportedDocs, data)

\* C3 witness: the empty list replaces [1, 2].
C3_Witness ==
    /\ pc = "done"
    /\ prev = [k |-> VList(<<One, Two>>)]
    /\ last = [k |-> VList(<<>>)]
    /\ data = [k |-> VList(<<>>)]

\* The hierarchy file as the run finds it, and its lines in file order.
HierNode == Stat(fs, hierarchyFilePath)
HierIsFile == HierNode.kind = "file"
HierLinesOf == SplitBy(HierNode.text, "\n")

\* processHierarchy has returned its list.
Returned ==
    \/ pc \in {"merge", "files", "done"}
    \/ pc = "fatal" /\ why \in {"list", "parse", "content variable", "write"}

IsDefinedVar(name) == name \in DOMAIN env /\ env[name].set

\* The placeholders in the part of a line before its comment.
Tokens(line) == FindAllString(BeforeComment(line))

HasUndefinedVar(line) ==
    \E i \in 1..Len(Tokens(line)) : ~IsDefinedVar(ToUpper(VarNameOf(Tokens(line)[i])))

\* The directory path a line stands for, <<>> for a line without an entry.
EntryOf(line) ==
    LET sub == replaceEnvironmentVariables(TrimSpace(BeforeComment(line)), FALSE).str
    IN IF sub = <<>> THEN <<>> ELSE Join(cfg.basePath, sub)

ExpectedHierarchy ==
    LET lines == HierLinesOf
    IN SelectSeq([i \in 1..Len(lines) |-> EntryOf(lines[i])],
                 LAMBDA e : e # <<>> /\ IsDir(fs, e))

\* C4: with a hierarchy file and failMissingPath false, the list returned
\* holds exactly the entries that are existing directories, in file order and
\* as often as listed; other entries are skipped without terminating, and a
\* last line without a newline counts.
C4_ResolvedHierarchy ==
    (HierIsFile /\ ~cfg.failMissingPath) =>
        /\ why # "hierarchy directory"
        /\ Returned => hierarchy = ExpectedHierarchy

\* C4 witness: the missing m is skipped and the unterminated last line
\* " e #c" gives b/e.
C4_Witness ==
    /\ pc = "done"
    /\ ~cfg.failMissingPath
    /\ HierIsFile
    /\ HierNode.text = FileText(<<LMissing, LChild>>, FALSE)
    /\ hierarchy = <<PChild>>

\* C5: without a hierarchy file and with failMissingHierarchy false the
\* hierarchy is the base path alone, no line is read, and every fragment
\* merged is a file directly inside the base directory.
C5_FallbackToBase ==
    (~Exists(fs, hierarchyFilePath) /\ ~cfg.failMissingHierarchy /\ Returned) =>
        /\ hierarchy = <<cfg.basePath>>
        /\ LinesRead = <<>>
        /\ \A i \in 1..Len(ImportedPaths) :
              /\ Parent(ImportedPaths[i]) = Clean(cfg.basePath)
              /\ Stat(fs, ImportedPaths[i]).kind = "file"

\* C5 witness: base path b/ without a hierarchy file; b/y.yml is merged.
C5_Witness ==
    /\ pc = "done"
    /\ ~Exists(fs, hierarchyFilePath)
    /\ hierarchy = << <<"b", "/">> >>
    /\ ImportedPaths = <<FragPaths[2]>>

OutputExists == Exists(fs, cfg.outputFile)
Written == \E i \in 1..Len(log) : log[i].ev = "write"

\* C6 as stated: no file at the output path while the hierarchy is resolved
\* and the fragments are read, the write is the last step, and on every fatal
\* termination there is no file at the output path.
C6_NoOutputOnAnyFatal ==
    /\ pc \in {"processHierarchy", "readLine", "merge", "files"} => ~OutputExists
    /\ Written => (pc = "done" /\ log[Len(log)].ev = "write")
    /\ pc = "fatal" => ~OutputExists

\* C6, amended: as above, but for a fatal termination at the removal itself
\* (os.Remove failed), where nothing else has happened and the old file stays.
C6_NoOutputAfterRemoval ==
    /\ pc \in {"processHierarchy", "readLine", "merge", "files"} => ~OutputExists
    /\ Written => (pc = "done" /\ log[Len(log)].ev = "write")
    /\ (pc = "fatal" /\ why # "remove") => ~OutputExists
    /\ (pc = "fatal" /\ why = "remove") => (log = <<>> /\ Stat(fs, cfg.outputFile) = StaleFile)

\* C6 witness: the old output was removed and the run then ended on a
\* missing hierarchy directory, leaving no output file.
C6_Witness ==
    /\ pc = "fatal"
    /\ why = "hierarchy directory"
    /\ log[1].ev = "remove"
    /\ ~OutputExists

\* C7: an undefined variable in the non-comment part of a line of the
\* hierarchy file ends the run fatally whatever the flags: processHierarchy
\* does not return a list.
\* (Stated the other way round: a run that has returned from
\* processHierarchy, or ended fatally with another status than 1, has no
\* such line.)
C7_HierarchyVariableFatal ==
    (Returned \/ (pc = "fatal" /\ exitCode # 1)) =>
        ~(/\ HierIsFile
          /\ LET lines == HierLinesOf
             IN \E i \in 1..Len(lines) : HasUndefinedVar(lines[i]))

\* C7 witness: line ${a} with A not set, no fail flag set, ends fatally.
C7_Witness ==
    /\ pc = "fatal"
    /\ why = "hierarchy variable"
    /\ exitCode = 1
    /\ ~IsDefinedVar(NameA)
    /\ ~cfg.failMissingEnvVar /\ ~cfg.failMissingPath /\ ~cfg.failMissingHierarchy
    /\ cfg.skipEnvVarContent
    /\ HierIsFile
    /\ HierNode.text = FileText(<<LSibling, LVariable>>, TRUE)

\* The number of non-overlapping occurrences of tok in text from index i on.
RECURSIVE CountFrom(_, _, _)
CountFrom(text, i, tok) ==
    IF i > Len(text) THEN 0
    ELSE IF HasPrefixAt(text, i, tok) THEN 1 + CountFrom(text, i + Len(tok), tok)
         ELSE CountFrom(text, i + 1, tok)

Count(text, tok) == CountFrom(text, 1, tok)

\* Every value of the environment is made of letters and digits.
PlainValues ==
    \A n \in DOMAIN env : \A i \in 1..Len(env[n].val) :
        IsLetter(env[n].val[i]) \/ env[n].val[i] \in Range(Digits)

OutputFileText == Stat(fs, cfg.outputFile).text

UndefinedInContent ==
    \E tok \in Range(FindAllString(Marshal(data))) : Getenv(ToUpper(VarNameOf(tok))) = <<>>

\* C9: with skipEnvVarContent false and failMissingEnvVar true a run whose
\* marshalled document holds an undefined placeholder never ends well: it
\* ends fatally before the write, and there is no output file.
C9_ContentVariableFatal ==
    (~cfg.skipEnvVarContent /\ cfg.failMissingEnvVar) =>
        /\ pc = "done" => ~UndefinedInContent
        /\ (pc = "fatal" /\ why = "content variable") =>
              (exitCode = 1 /\ UndefinedInContent /\ ~Written /\ ~OutputExists)

\* C9 witness: B is not set, the document holds ${b}, the run ends fatally.
C9_Witness ==
    /\ pc = "fatal"
    /\ why = "content variable"
    /\ cfg.failMissingEnvVar /\ ~cfg.skipEnvVarContent
    /\ ~IsDefinedVar(NameB) /\ IsDefinedVar(NameA)
    /\ ~OutputExists

\* A line whose entry, all its variables defined, is not an existing directory.
MissingEntry(line) ==
    /\ ~HasUndefinedVar(line)
    /\ EntryOf(line) # <<>>
    /\ ~IsDir(fs, EntryOf(line))

\* A variable of the line is set to the empty text, which os.Getenv does not
\* tell from a variable that is not set.
HasEmptyVar(line) ==
    \E i \in 1..Len(Tokens(line)) : Getenv(ToUpper(VarNameOf(Tokens(line)[i]))) = <<>>

WithoutNewline(line) ==
    IF line # <<>> /\ line[Len(line)] = "\n" THEN SubSeq(line, 1, Len(line) - 1) ELSE line

\* C10: with failMissingPath true the lines are read in file order, and the
\* first whose entry is not an existing directory ends the run fatally: it is
\* the last line read and no list is returned.  The run ends at the directory
\* test, or at the substitution when a variable of the line is set but empty.
C10_MissingPathFatal ==
    (cfg.failMissingPath /\ LinesRead # <<>> /\ HierIsFile) =>
        LET read == LinesRead
            lines == HierLinesOf
        IN \A i \in 1..Len(read) :
              /\ i <= Len(lines)
              /\ WithoutNewline(read[i].arg) = lines[i]
              /\ MissingEntry(read[i].arg) =>
                    /\ i = Len(read)
                    /\ pc = "fatal" /\ exitCode = 1
                    /\ why = IF HasEmptyVar(read[i].arg)
                             THEN "hierarchy variable" ELSE "hierarchy directory"
                    /\ ~Returned

\* C10 witness: the first line names the regular file f; the run ends there
\* with the second line unread.
C10_Witness ==
    /\ pc = "fatal"
    /\ cfg.failMissingPath
    /\ HierIsFile
    /\ HierNode.text = FileText(<<LPlain, LChild>>, TRUE)
    /\ Len(LinesRead) = 1
    /\ unread = LChild \o <<"\n">>

FellBack == \E i \in 1..Len(log) : log[i].ev = "fallback"

\* C11: without a hierarchy file and with failMissingHierarchy true the run
\* ends fatally in processHierarchy (os.Open fails): the base directory is
\* never taken as the hierarchy, and nothing is listed, merged or written.
C11_MissingHierarchyFatal ==
    (~Exists(fs, hierarchyFilePath) /\ cfg.failMissingHierarchy) =>
        /\ ~FellBack
        /\ ~Returned
        /\ hierarchy = <<>>
        /\ pc # "readLine"
        /\ pc = "fatal" => (exitCode = 1 /\ why \in {"remove", "open"})

\* C11 witness: an existing base directory without a hierarchy file; the run
\* ends at os.Open.
C11_Witness ==
    /\ pc = "fatal"
    /\ why = "open"
    /\ exitCode = 1
    /\ cfg.failMissingHierarchy
    /\ IsDir(fs, cfg.basePath)
    /\ ~Exists(fs, hierarchyFilePath)
    /\ hierarchy = <<>>

Listed == \E i \in 1..Len(log) : log[i].ev = "list"

\* C12: in the fallback without a hierarchy file, a base path that is not an
\* existing directory ends the run fatally when it is listed, with
\* failMissingPath true or false: nothing is listed, merged or written.
C12_FallbackBaseMissingFatal ==
    (~Exists(fs, hierarchyFilePath) /\ ~cfg.failMissingHierarchy
        /\ ~IsDir(fs, cfg.basePath)) =>
        /\ pc \notin {"done", "files", "readLine"}
        /\ ~Listed /\ ~Written /\ counter = 0
        /\ pc = "fatal" => (exitCode = 1 /\ why \in {"remove", "list"})
        /\ (pc = "fatal" /\ why = "list") => (FellBack /\ ~OutputExists)

\* C12 witness: base path m does not exist and failMissingPath is false; the
\* run ends at the listing of m.
C12_Witness ==
    /\ pc = "fatal"
    /\ why = "list"
    /\ exitCode = 1
    /\ ~cfg.failMissingPath
    /\ cfg.basePath = <<"m">>
    /\ hierarchy = << <<"m">> >>
    /\ ~OutputExists

----------------------------------------------------------------------------
\* Single calls of the functions of main.go, on arguments of every shape.

\* Pieces of the text handed to replaceEnvironmentVariables.
Pieces ==
    { <<"$", "{", "a", "}">>, <<"$", "{", "A", "}">>, <<"$", "{", "B", "}">>,
      <<"$", "{">>, <<"}">>, <<"$">>, <<"{", "B", "}">>, <<"x">> }

RECURSIVE Concat(_)
Concat(ps) == IF ps = <<>> THEN <<>> ELSE Head(ps) \o Concat(Tail(ps))

CallTexts == {Concat(ps) : ps \in SeqsUpTo(Pieces, MaxPieces)}

\* Values of A and B: not set, empty, plain, and text with placeholder syntax.
ValuesA ==
    { Undefined, Defined(<<>>), Defined(<<"e">>), Defined(<<"B">>), Defined(<<"{", "B", "}">>),
      Defined(<<"$", "{", "B", "}">>) }
ValuesB == {Undefined, Defined(<<"v">>)}

\* The state a single call starts in: nothing of a run of main has happened.
CallInit ==
    /\ cfg = DefaultCfg
    /\ parseErr = FALSE
    /\ pc = "call"
    /\ exitCode = -1
    /\ why = ""
    /\ hierarchy = <<>>
    /\ unread = <<>>
    /\ dirIdx = 1
    /\ files = <<>>
    /\ data = EmptyMap
    /\ counter = 0
    /\ prev = EmptyMap
    /\ last = EmptyMap
    /\ log = <<>>
    /\ runs = <<>>

\* Names of the entries of the directory handed to getFiles, and what an
\* entry can be; a directory entry holds a file n.yml of its own.
EntryNames ==
    { <<"a", ".", "y", "m", "l">>, <<"b", ".", "y", "a", "m", "l">>,
      <<"c", ".", "j", "s", "o", "n">>, <<"f", ".", "t", "x", "t">>,
      <<"g", ".", "y", "a", "m", "l", ".", "d">>, <<"x", "y", "m", "l">>,
      <<"y", "m", "l">> }
EntryKinds == {"none", "file", "dir"}
Inner == <<"n", ".", "y", "m", "l">>

\* The file system with the entries of the given kinds in directory d.
Listing(kinds) ==
    LET there == {n \in EntryNames : kinds[n] # "none"}
        dirs == {n \in EntryNames : kinds[n] = "dir"}
        paths == {Join(PSibling, n) : n \in there}
                     \cup {Join(Join(PSibling, n), Inner) : n \in dirs}
    IN [q \in paths |->
            IF \E n \in dirs : q = Join(PSibling, n) THEN Dir(TRUE) ELSE TextFile(<<>>)]
        @@ (PDot :> Dir(TRUE)) @@ (PSibling :> Dir(TRUE))

SubstituteInit ==
    /\ fs = Tree
    /\ \E a \in ValuesA, b \in ValuesB : env = (NameA :> a) @@ (NameB :> b)
    /\ \E t \in CallTexts, fm \in BOOLEAN :
          call = [fn |-> "replaceEnvironmentVariables", str |-> t,
                  failMissing |-> fm, ret |-> <<>>]

GetFilesInit ==
    /\ env = DefaultEnv
    /\ \E kinds \in [EntryNames -> EntryKinds] : fs = Listing(kinds)
    /\ \E dir \in {PSibling, <<"d", "/">>}, filter \in {defaultFileFilter, BadFilter} :
          call = [fn |-> "getFiles", includePath |-> dir, fileFilter |-> filter,
                  ret |-> <<>>]

UnitInit ==
    /\ CallInit
    /\ SubstituteInit \/ GetFilesInit

\* replaceEnvironmentVariables(str, failMissing) returns or ends the process.
Substitute ==
    /\ pc = "call"
    /\ call.fn = "replaceEnvironmentVariables"
    /\ LET r == replaceEnvironmentVariables(call.str, call.failMissing)
       IN IF r.fatal
          THEN Fatal("variable") /\ UNCHANGED call
          ELSE /\ call' = [call EXCEPT !.ret = r.str]
               /\ pc' = "returned"
               /\ UNCHANGED <<exitCode, why>>
    /\ UNCHANGED <<cfg, parseErr, env, fs, hierarchy, unread, dirIdx, files,
                   data, counter, prev, last, log, runs>>

\* getFiles(includePath, fileFilter) returns or ends the process.
GetFiles ==
    /\ pc = "call"
    /\ call.fn = "getFiles"
    /\ IF ReadDirFails(fs, call.includePath)
       THEN Fatal("list") /\ UNCHANGED call
       ELSE /\ call' = [call EXCEPT !.ret = getFiles(fs, call.includePath, call.fileFilter)]
            /\ pc' = "returned"
            /\ UNCHANGED <<exitCode, why>>
    /\ UNCHANGED <<cfg, parseErr, env, fs, hierarchy, unread, dirIdx, files,
                   data, counter, prev, last, log, runs>>

UnitNext ==
    \/ Substitute
    \/ GetFiles

UnitSpec == UnitInit /\ [][UnitNext]_vars

\* The upper-case form of a character, and the value of the variable a
\* token names: that of the environment variable whose name is the token's
\* name letter for letter in upper case.
Up(c) == IF \E i \in 1..Len(Lower) : Lower[i] = c
         THEN Upper[CHOOSE i \in 1..Len(Lower) : Lower[i] = c] ELSE c

Names(token, v) ==
    /\ Len(v) = Len(token) - 3
    /\ \A i \in 1..Len(v) : v[i] = Up(token[i + 2])

ValueFor(token) ==
    IF \E v \in DOMAIN env : env[v].set /\ Names(token, v)
    THEN env[CHOOSE v \in DOMAIN env : env[v].set /\ Names(token, v)].val
    ELSE <<>>

\* The text with exactly its matched tokens replaced, each by its value
\* when that is not empty, and every other character as it was.
RECURSIVE TokensReplaced(_, _)
TokensReplaced(text, i) ==
    IF i > Len(text) THEN <<>>
    ELSE IF MatchEnd(text, i) > 0
         THEN LET tok == SubSeq(text, i, MatchEnd(text, i))
              IN (IF ValueFor(tok) # <<>> THEN ValueFor(tok) ELSE tok)
                     \o TokensReplaced(text, MatchEnd(text, i) + 1)
         ELSE <<text[i]>> \o TokensReplaced(text, i + 1)

Substituted == pc = "returned" /\ call.fn = "replaceEnvironmentVariables"

\* C13 as stated: the result is the text with every matched token whose
\* variable (upper-cased name) has a value replaced by that value, and all
\* other text unchanged.
C13_OnlyTokensReplaced ==
    Substituted => call.ret = TokensReplaced(call.str, 1)

\* No matched token with a value occurs in the text once the matched
\* tokens are replaced: no value forms such a token, alone or with the text
\* around it.
NoTokenFormed(text) ==
    LET replaced == TokensReplaced(text, 1)
    IN \A tok \in Range(FindAllString(text)) :
          ValueFor(tok) # <<>> => Count(replaced, tok) = 0

\* C13, amended: the matches are replaced one after the other in the text
\* as rewritten so far; when no replacement forms a matched token, the
\* result is the text with every matched token that has a value replaced by
\* it (looked up under the upper-cased name) and all other text unchanged.
C13_TokensReplacedInTurn ==
    (Substituted /\ NoTokenFormed(call.str)) =>
        call.ret = TokensReplaced(call.str, 1)

\* C13 witness: ${a} and ${A} are both replaced by the value of A.
C13_Witness ==
    /\ Substituted
    /\ env[NameA] = Defined(<<"e">>)
    /\ call.str = <<"$", "{", "a", "}", "x", "$", "{", "A", "}">>
    /\ call.ret = <<"e", "x", "e">>

\* C14: with skipEnvVarContent true the text written is the marshalled
\* document as it is, placeholders included, whatever the environment holds;
\* an undefined variable in the content never ends the run, also with
\* failMissingEnvVar true.
C14_SkipLeavesContent ==
    cfg.skipEnvVarContent =>
        /\ why # "content variable"
        /\ pc = "done" => (exitCode = 0 /\ OutputExists /\ OutputFileText = Marshal(data))

\* C14 witness: failMissingEnvVar is true, A is set and B is not; ${A} and
\* ${b} are both in the output.
C14_Witness ==
    /\ pc = "done"
    /\ cfg.skipEnvVarContent /\ cfg.failMissingEnvVar
    /\ env[NameA] = Defined(<<"e">>) /\ ~IsDefinedVar(NameB)
    /\ Count(OutputFileText, VarA) = 2
    /\ Count(OutputFileText, <<"$", "{", "b", "}">>) = 1

FilesListed == pc = "returned" /\ call.fn = "getFiles"

\* The direct entries of a directory.
EntriesOf(dir) == {p \in DOMAIN fs : p # PDot /\ Parent(p) = Clean(dir)}

\* A name ends in one character followed by yaml, yml or json.
EndsInExtension(name) ==
    \E i \in 2..Len(name) :
        SubSeq(name, i, Len(name)) \in
            {<<"y", "a", "m", "l">>, <<"y", "m", "l">>, <<"j", "s", "o", "n">>}

\* C15: getFiles returns the direct entries that are not directories and
\* whose name matches the filter, each once, in the order of the listing
\* (by name); with the default filter these are the names that end in
\* .yaml, .yml or .json; a directory is never returned nor descended into.
C15_GetFilesExact ==
    FilesListed =>
        /\ Range(call.ret) =
              {p \in EntriesOf(call.includePath) :
                  /\ fs[p].kind = "file"
                  /\ call.fileFilter = defaultFileFilter
                  /\ EndsInExtension(BaseName(p))}
        /\ \A i, j \in 1..Len(call.ret) :
              i < j => NameLess(BaseName(call.ret[i]), BaseName(call.ret[j]))
        /\ \A i \in 1..Len(call.ret) :
              /\ ~IsDir(fs, call.ret[i])
              /\ BaseName(call.ret[i]) \notin
                    {Inner, <<"f", ".", "t", "x", "t">>,
                     <<"g", ".", "y", "a", "m", "l", ".", "d">>}

\* C15 witness: a.yml is a directory holding n.yml, f.txt and g.yaml.d are
\* files; b.yaml and c.json are returned.
C15_Witness ==
    /\ FilesListed
    /\ call.fileFilter = defaultFileFilter
    /\ IsDir(fs, <<"d", "/", "a", ".", "y", "m", "l">>)
    /\ Stat(fs, <<"d", "/", "f", ".", "t", "x", "t">>).kind = "file"
    /\ Stat(fs, <<"d", "/", "g", ".", "y", "a", "m", "l", ".", "d">>).kind = "file"
    /\ call.ret = << <<"d", "/", "b", ".", "y", "a", "m", "l">>,
                     <<"d", "/", "c", ".", "j", "s", "o", "n">> >>

\* The directory an entry denotes: itself when it is an absolute path, the
\* path under the base path otherwise.
IsAbs(entry) == entry # <<>> /\ entry[1] = "/"
Denoted(entry) == IF IsAbs(entry) THEN Clean(entry) ELSE Clean(Join(cfg.basePath, entry))

EntriesRead == [i \in 1..Len(HierLinesOf) |-> TrimSpace(BeforeComment(HierLinesOf[i]))]

\* C16 as stated: the hierarchy returned holds the directories the entries
\* denote, an absolute entry denoting that absolute directory whatever the
\* base path is, a relative one the path under the base path.
C16_AbsoluteOrRelative ==
    (HierIsFile /\ ~cfg.failMissingPath /\ Returned
        /\ \A i \in 1..Len(HierLinesOf) : Tokens(HierLinesOf[i]) = <<>>) =>
        [i \in 1..Len(hierarchy) |-> Clean(hierarchy[i])] =
            SelectSeq([i \in 1..Len(EntriesRead) |->
                           IF EntriesRead[i] = <<>> THEN <<>>
                           ELSE Denoted(EntriesRead[i])],
                      LAMBDA d : d # <<>> /\ IsDir(fs, d))

\* C17: a fragment that cannot be read, is not well-formed or is not a
\* mapping at its top level ends the run fatally when it is imported: it is
\* the last file imported, nothing is written and there is no output file.
C17_BrokenFragmentFatal ==
    \A i \in 1..Len(Imports) :
        Stat(fs, Imports[i].arg).yaml.ok = FALSE =>
            /\ i = Len(Imports)
            /\ pc = "fatal" /\ exitCode = 1 /\ why = "parse"
            /\ counter = i - 1
            /\ ~Written /\ ~OutputExists

\* C17 witness: d/a.json is merged, d/x.yml is a list at its top level, the
\* good b/y.yml is never imported and the old output file is gone.
C17_Witness ==
    /\ pc = "fatal"
    /\ why = "parse"
    /\ counter = 1
    /\ ImportedPaths = <<FragPaths[3], FragPaths[1]>>
    /\ Stat(fs, FragPaths[1]) = Broken("not a mapping")
    /\ Stat(fs, FragPaths[2]) = Fragment(DefaultDocs[2])
    /\ log[1].ev = "remove"
    /\ ~OutputExists

\* regexp.MatchString returned an error for a file of a directory listed.
FilterErrorRaised ==
    \E i \in 1..Len(log) :
        /\ log[i].ev = "list"
        /\ \E p \in DOMAIN fs :
              /\ p # PDot /\ Parent(p) = Clean(log[i].arg)
              /\ fs[p].kind = "file"
              /\ MatchString(cfg.filterExtension, BaseName(p)).err

\* C18 as stated: an error of a step that no fail flag governs ends the run
\* at once with a non-zero status; here for the error of evaluating the
\* filter pattern, and for the steps whose failure the run records.
C18_EveryErrorFatal ==
    /\ FilterErrorRaised => (pc = "fatal" /\ exitCode = 1)
    /\ pc = "fatal" => exitCode = 1
    /\ pc = "done" => why = "success"

\* C19: a second run of main with the same arguments and environment, on
\* the files the first run has left, ends well too and writes an output file
\* with the same text as the first.
C19_RerunSameOutput ==
    runs # <<>> =>
        /\ pc # "fatal"
        /\ pc = "done" => (OutputExists /\ OutputFileText = runs[Len(runs)])

\* C19 witness: the second run removes the output b/o.yml of the first,
\* merges d/x.yml and b/y.yml again and writes the same text.
C19_Witness ==
    /\ runs # <<>>
    /\ pc = "done"
    /\ log[1] = Event("remove", POut)
    /\ ImportedPaths = <<FragPaths[1], FragPaths[2]>>
    /\ OutputFileText = runs[1]
    /\ Len(OutputFileText) > 3

\* processHierarchy has returned directories none of which holds a file
\* that matches the filter; the hierarchy may be empty.
NothingToMerge ==
    /\ Returned
    /\ LET f == MergeFs
       IN \A i \in 1..Len(hierarchy) :
             /\ IsDir(fs, hierarchy[i])
             /\ getFiles(f, hierarchy[i], cfg.filterExtension) = <<>>

\* Nothing has been merged, a fatal end is a failed write, and a run that
\* ended well has written the empty document.
EmptyRunEndsWell ==
    /\ counter = 0 /\ data = EmptyMap
    /\ pc = "fatal" => (why = "write" /\ ~CanWrite(fs, cfg.outputFile))
    /\ pc = "done" =>
          /\ exitCode = 0
          /\ OutputExists
          /\ OutputFileText = <<"{", "}", "\n">>

\* C20: when there is nothing to merge the run goes on to the write step
\* and ends well with count 0 and an output file holding the empty document
\* {}; the one way it can still end fatally is the write itself failing.
C20_NothingMergedStillWrites == NothingToMerge => EmptyRunEndsWell

\* C20 witness: the hierarchy is b/e alone, a directory without fragments;
\* it is listed and the output file holds {}.
C20_Witness ==
    /\ pc = "done"
    /\ exitCode = 0
    /\ hierarchy = <<PChild>>
    /\ Listed
    /\ counter = 0
    /\ OutputFileText = <<"{", "}", "\n">>

\* Nothing of a run has happened beyond parseFlags.
NothingDone ==
    /\ pc \in {"start", "exit"}
    /\ log = <<>> /\ hierarchy = <<>> /\ counter = 0 /\ data = EmptyMap

\* C21: with the version flag the process exits with status 0 in
\* parseFlags, also when the arguments do not parse; with a parse error and
\* no version flag it exits with status 2.  Either way no step changes the
\* file system: the old output file stays, nothing is resolved, read or
\* written.
C21_VersionExitsFirst ==
    /\ [](cfg.printVersion => (NothingDone /\ (pc = "exit" => exitCode = 0)))
    /\ []((~cfg.printVersion /\ parseErr) =>
              (NothingDone /\ (pc = "exit" => exitCode = 2)))
    /\ [][(cfg.printVersion \/ parseErr) => fs' = fs]_vars

\* C21 witness: version flag and a parse error together; the exit status is
\* 0 and the old output file is still there.
C21_Witness ==
    /\ pc = "exit"
    /\ exitCode = 0
    /\ cfg.printVersion /\ parseErr
    /\ Stat(fs, cfg.outputFile) = StaleFile

\* C22: every element of the list processHierarchy returns is an existing
\* directory, in the fallback without a hierarchy file as well.
C22_EveryElementVerified ==
    Returned => \A i \in 1..Len(hierarchy) : IsDir(fs, hierarchy[i])

\* At a key of both d and s whose values are not both mappings r has the
\* value of s; the same in the mappings merged under a key of both.
RECURSIVE IncomingWins(_, _, _)
IncomingWins(d, s, r) ==
    \A k \in DOMAIN d \cap DOMAIN s :
        /\ k \in DOMAIN r
        /\ IF d[k].t = "map" /\ s[k].t = "map"
           THEN r[k].t = "map" /\ IncomingWins(d[k].v, s[k].v, r[k].v)
           ELSE r[k] = s[k]

\* C23: at a key of the accumulator and of the incoming fragment whose two
\* values are not both mappings, the merged value is the incoming value.
C23_IncomingValueWins == counter > 0 => IncomingWins(prev, last, data)

\* The matched tokens of a text whose variable is set to the empty string.
EmptyTokens(text) ==
    { tok \in Range(FindAllString(text)) :
        \E v \in DOMAIN env : env[v].set /\ env[v].val = <<>> /\ Names(tok, v) }

Kept(line) ==
    IF \E i \in 1..Len(line) : line[i] = "#"
    THEN SubSeq(line, 1, (CHOOSE i \in 1..Len(line) :
                             line[i] = "#" /\ \A j \in 1..(i - 1) : line[j] # "#") - 1)
    ELSE line
Blank(line) == LET kept == Kept(line) IN \A i \in 1..Len(kept) : kept[i] \in {" ", "\n"}

\* C25: what follows the first # of a hierarchy line is dropped before the
\* line is trimmed and substituted: a blank, white-space or comment line adds
\* no entry and never ends the run, and a run that ends at the substitution
\* of a line has a placeholder without a value in front of the #.
C25_CommentsDropped ==
    (HierIsFile /\ LinesRead # <<>>) =>
        LET read == LinesRead
            n == Len(read)
            stopped == pc = "fatal" /\ why \in {"hierarchy variable", "hierarchy directory"}
        IN /\ hierarchy # <<>> =>
                 Len(hierarchy) <= Cardinality({i \in 1..n : ~Blank(read[i].arg)})
           /\ stopped => ~Blank(read[n].arg)
           /\ (stopped /\ why = "hierarchy variable") =>
                 \E tok \in Range(FindAllString(Kept(read[n].arg))) : ValueFor(tok) = <<>>

\* C25 witness: with failMissingPath, the lines #${B} and e #${B} give the
\* hierarchy b/e although B is not set.
C25_Witness ==
    /\ pc = "done"
    /\ cfg.failMissingPath
    /\ ~IsDefinedVar(NameB)
    /\ HierIsFile
    /\ HierNode.text = FileText(<<LComment, LEntryComment>>, TRUE)
    /\ hierarchy = <<PChild>>

\* C26: the file found at the output path when main starts is never listed
\* or read as a fragment, also when the output path lies in a directory of
\* the hierarchy and matches the filter; nothing of it is in the merged
\* document.
C26_OldOutputNeverRead ==
    /\ \A i \in 1..Len(ImportedPaths) : Clean(ImportedPaths[i]) # Clean(cfg.outputFile)
    /\ \A i \in 1..Len(files) : Clean(files[i]) # Clean(cfg.outputFile)
    /\ "z" \notin DOMAIN data

\* C26 witness: no hierarchy file, so the base directory b, which holds the
\* old output b/o.yml, is the hierarchy; the old file is removed and only
\* b/y.yml is merged.
C26_Witness ==
    /\ pc = "done"
    /\ runs = <<>>
    /\ FellBack
    /\ hierarchy = <<PBase>>
    /\ Parent(cfg.outputFile) = PBase
    /\ log[1] = Event("remove", POut)
    /\ ImportedPaths = <<FragPaths[2]>>
    /\ "z" \notin DOMAIN data

\* A text cut into its matched tokens and the single characters between them.
RECURSIVE SegmentsFrom(_, _)
SegmentsFrom(text, i) ==
    IF i > Len(text) THEN <<>>
    ELSE IF MatchEnd(text, i) > 0
         THEN <<SubSeq(text, i, MatchEnd(text, i))>> \o SegmentsFrom(text, MatchEnd(text, i) + 1)
         ELSE << <<text[i]>> >> \o SegmentsFrom(text, i + 1)
Segments(text) == SegmentsFrom(text, 1)

\* Each token that has a value replaced by it, every other segment kept.
Images(segs) ==
    [i \in 1..Len(segs) |->
        IF Len(segs[i]) > 1 /\ ValueFor(segs[i]) # <<>> THEN ValueFor(segs[i]) ELSE segs[i]]

Reverse(s) == [i \in 1..Len(s) |-> s[Len(s) + 1 - i]]

\* The segments in the opposite order are the segments of a text.
Turns(segs) == segs # Reverse(segs) /\ Segments(Concat(Reverse(segs))) = Reverse(segs)

\* The function returns, for the text of the segments, each token that has
\* a value replaced by it and all else as it was.
ReplacedAtOnce(segs) ==
    replaceEnvironmentVariables(Concat(segs), call.failMissing)
        = [fatal |-> FALSE, str |-> Concat(Images(segs))]

\* A token that has a value occurs in the text with its tokens replaced.
Formed(segs) ==
    LET replaced == Concat(Images(segs))
    IN \E i \in 1..Len(segs) :
          /\ Len(segs[i]) > 1
          /\ ValueFor(segs[i]) # <<>>
          /\ Count(replaced, segs[i]) > 0

====
